---- MODULE Spec2Model ----
(***************************************************************************)
(* A model of FirefoxDesktopExtensionRunner                                *)
(* (src/lib/extension-runners/firefox-desktop.js).                         *)
(*                                                                         *)
(* The runner is a JavaScript object driven by one event loop.  Every      *)
(* action below is one uninterrupted turn of that loop: the code that runs *)
(* from a call, or from the settling of an awaited promise, up to the next *)
(* await on a collaborator.  The collaborators (profile manager, process   *)
(* launcher, remote-protocol session) are the environment: each awaited     *)
(* request settles in an action of its own, with an outcome drawn from the *)
(* outcomes the collaborator can produce.                                  *)
(*                                                                         *)
(* The module also models the file filter (src/unnamed/part_000:           *)
(* isSubPath, FileFilter), a pure predicate over paths which the runner    *)
(* does not use; FilterSpec is the specification of its callers.           *)
(***************************************************************************)
EXTENDS Naturals, Sequences, FiniteSets, TLC

(***************************************************************************)
(* Bounds of the model.                                                    *)
(***************************************************************************)
\* How many calls of each method the runner's caller makes in one history.
\* The caller follows one of five plans: it runs once and reloads; it runs
\* once, registers cleanups and exits; it runs again and again, with one
\* reload or with one registered cleanup; or it calls every method.
MaxRuns == 2
MaxReloadCalls == 2
MaxRegisterCalls == 3
MaxExits == 1
CallPlans ==
    {[run |-> 1, reload |-> MaxReloadCalls, register |-> 0, exit |-> 0],
     [run |-> 1, reload |-> 0, register |-> MaxRegisterCalls, exit |-> MaxExits],
     [run |-> MaxRuns, reload |-> 1, register |-> 0, exit |-> 0],
     [run |-> MaxRuns, reload |-> 0, register |-> 1, exit |-> 0],
     [run |-> 1, reload |-> 1, register |-> 1, exit |-> 2]}

\* Source directories: d1 and d2 may be configured, d3 is never passed to run().
Dirs == {"d1", "d2", "d3"}

\* Callback references handed to registerCleanup; cb2 raises when invoked.
Callbacks == {"cb1", "cb2", "cb3"}
RaisingCallbacks == {"cb2"}

\* "undefined" for the fields the constructor leaves unset.
Undefined == 0

\* The falsy addon id of an install result that carries no id.
NoAddonId == ""
\* The addon id the browser gives the extension of each source directory.
AddonIdOf(dir) == CASE dir = "d1" -> "addon1" [] dir = "d2" -> "addon2" [] OTHER -> "addon3"

\* Errors.  Every error value has the same shape, so that any two compare.
Error(name, about) ==
    [name |-> name, about |-> about, errorsBySourceDir |-> [d \in {} |-> ""]]
\* the absent reloadError of a successful result
NoError == Error("undefined", "")
ErrNoFirefox == Error("WebExtError", "No firefox instance is currently running")
ErrMissingAddonId == Error("WebExtError", "Unexpected missing addonId in the installAsTemporaryAddon result")
ErrUsePreInstall == Error("WebExtError", "Temporary add-on installation is not supported, use --pre-install")
ErrNotReloadable(dir) == Error("WebExtError: Extension not reloadable: no addonId has been mapped to", dir)
MultiExtensionsReloadError(errors) ==
    [name |-> "MultiExtensionsReloadError", about |-> "", errorsBySourceDir |-> errors]
\* what the collaborators reject with
RemoteTempInstallNotSupported == Error("RemoteTempInstallNotSupported", "")
ErrProfile == Error("Error", "profile")
ErrProxyInstall == Error("Error", "installExtension")
ErrLaunch == Error("Error", "firefoxApp.run")
ErrConnect == Error("Error", "firefoxClient")
ErrInstall == Error("Error", "installTemporaryAddon")
ErrReload == Error("Error", "reloadAddon")
ErrTypeError == Error("TypeError", "Cannot read properties of undefined")

VARIABLES
    plan,                 \* the caller: how many calls of each method it makes
    params,              \* this.params: [extensions, preInstall, profilePath, keepProfileChanges]
    reloadableExtensions, \* this.reloadableExtensions: Map sourceDir -> addonId
    cleanupCallbacks,     \* this.cleanupCallbacks: Set, in insertion order
    profile,              \* this.profile
    remoteFirefox,        \* this.remoteFirefox
    runningInfo,          \* this.runningInfo
    runPc,                \* where the run() in progress is suspended
    runIdx,               \* the extension the run() in progress is installing
    runSession,           \* the local const remoteFirefox of startFirefoxInstance
    runs,                 \* the outcome of every run() call so far
    reloads,              \* every reload call so far, finished or suspended
    profiles,             \* profile manager: per profile, how it was made and its proxy installs
    processes,            \* process launcher: per process, its listeners, kill signals, closed flag
    sessions,             \* protocol client: per session, the requests it has answered
    registerLog,          \* every registerCleanup(fn) call, in order
    cleanupLog,           \* every run of the close handler
    exitLog,              \* the outcome of every exit() call
    filterParams,         \* file-filter.js: the parameters a FileFilter is constructed with
    fileFilter,           \* file-filter.js: the FileFilter object (sourceDir, filesToIgnore)
    filterCall            \* file-filter.js: the call of isSubPath / wantFile that has just answered

vars == <<plan, params, reloadableExtensions, cleanupCallbacks, profile, remoteFirefox,
          runningInfo, runPc, runIdx, runSession, runs, reloads, profiles,
          processes, sessions, registerLog, cleanupLog, exitLog,
          filterParams, fileFilter, filterCall>>

callerVars == <<plan, params>>
runnerVars == <<reloadableExtensions, cleanupCallbacks, profile, remoteFirefox, runningInfo>>
runTaskVars == <<runPc, runIdx, runSession, runs>>
envVars == <<profiles, processes, sessions>>
filterVars == <<filterParams, fileFilter, filterCall>>

(***************************************************************************)
(* Helpers.                                                                *)
(***************************************************************************)
Range(s) == {s[i] : i \in 1..Len(s)}

\* new Map()
EmptyMap == [d \in {} |-> ""]

\* Map.prototype.set
MapSet(m, k, v) == [x \in (DOMAIN m) \cup {k} |-> IF x = k THEN v ELSE m[x]]

\* Map.prototype.get: undefined (falsy, like the empty id) for a missing key
MapGet(m, k) == IF k \in DOMAIN m THEN m[k] ELSE NoAddonId

\* SetAdd with the semantics of Array.prototype.push
SetAddAsList(s, x) == Append(s, x)

\* Set.prototype.add on an insertion-ordered set
SetAdd(s, x) == IF x \in Range(s) THEN s ELSE Append(s, x)

\* The configurations a runner may be constructed with.
Config(preInstall, profilePath, keepProfileChanges) ==
    [extensions |-> <<"d1", "d2">>, preInstall |-> preInstall,
     profilePath |-> profilePath, keepProfileChanges |-> keepProfileChanges]
Configs ==
    {Config(FALSE, FALSE, FALSE), Config(TRUE, TRUE, FALSE), Config(FALSE, TRUE, TRUE)}

\* getName()
getName == "Firefox Desktop"

(***************************************************************************)
(* file-filter.js (src/unnamed/part_000): isSubPath and FileFilter.        *)
(*                                                                         *)
(* A path string is modelled by its segments: [abs, segs] is the string    *)
(* made of segs joined by path.sep, with a leading separator when abs.     *)
(* The paths are POSIX paths.                                              *)
(***************************************************************************)
\* How long the paths handed to isSubPath and wantFile are, how deep the
\* artifacts directory lies, how many patterns ignoreFiles holds.
MaxPathLen == 3
MaxDirLen == 2
MaxIgnoreFiles == 2

\* File and directory names: two plain names, a name that begins with two
\* dots (a hidden name), an archive.
Names == {"a", "b", "..x", "c.zip"}
\* the parent-traversal segment
DotDot == ".."
RawNames == Names \cup {DotDot}

\* every sequence over S of length lo to hi
SeqsOf(S, lo, hi) == UNION {[1..n -> S] : n \in lo..hi}

Path(abs, segs) == [abs |-> abs, segs |-> segs]
\* the empty string, which is also how an absent (undefined) path behaves
NoPath == Path(FALSE, <<>>)
\* JavaScript truthiness of a path string
TruthyPath(p) == p # NoPath

\* process.cwd()
Cwd == <<"a">>

\* seg.charAt(0) === '.'
StartsWithDot(seg) == seg \in {".", DotDot, "..x"}
\* seg.startsWith('..')
StartsWithDotDot(seg) == seg \in {DotDot, "..x"}
\* the name ends with the extension ext
EndsWith(seg, ext) == seg = "c.zip" /\ ext = ".zip"

\* path normalization: '.' is dropped, '..' removes the segment before it
\* and is dropped at the root
RECURSIVE Normalize(_, _)
Normalize(done, rest) ==
    IF rest = <<>>
    THEN done
    ELSE Normalize(
             IF Head(rest) = "."
             THEN done
             ELSE IF Head(rest) = DotDot
                  THEN SubSeq(done, 1, Len(done) - 1)
                  ELSE Append(done, Head(rest)),
             Tail(rest))

\* path.resolve(base, p), base an absolute normalized path: the segments of
\* the absolute path it returns
resolve(base, p) == Normalize(<<>>, IF p.abs THEN p.segs ELSE base \o p.segs)

\* path.join(p, '**', '*')
join(p, more) == Path(p.abs, p.segs \o more)

\* how many leading segments f and t share
CommonLen(f, t) ==
    CHOOSE k \in 0..Len(f) :
        /\ k <= Len(t)
        /\ \A i \in 1..k : f[i] = t[i]
        /\ k = Len(f) \/ k = Len(t) \/ f[k + 1] # t[k + 1]

\* path.relative(from, to): the segments of the relative path string, none
\* for the empty string
relative(from, to) ==
    LET f == resolve(Cwd, from)
        t == resolve(Cwd, to)
        k == CommonLen(f, t)
    IN [i \in 1..(Len(f) - k) |-> DotDot] \o SubSeq(t, k + 1, Len(t))

\* relate.startsWith(`..${path.sep}`): the first segment is '..' and a
\* separator follows it
StartsWithDotDotSep(relate) == Len(relate) > 1 /\ relate[1] = DotDot

\* isSubPath testing startsWith('..') without the separator
isSubPathNoSep(src, target) ==
    LET relate == relative(src, target)
    IN IF relate = <<>>
       THEN FALSE
       ELSE IF relate = <<DotDot>>
            THEN FALSE
            ELSE ~StartsWithDotDot(relate[1])

\* isSubPath(src, target)
isSubPath(src, target) ==
    LET relate == relative(src, target)
    IN IF relate = <<>>
       THEN FALSE
       ELSE IF relate = <<DotDot>>
            THEN FALSE
            ELSE ~StartsWithDotDotSep(relate)

\* minimatch of one path segment against one pattern segment, option dot
\* unset: '*' and '*.ext' match no name that begins with a dot
SegMatch(pseg, seg) ==
    CASE pseg = "*" -> ~StartsWithDot(seg)
      [] pseg = ".*" -> StartsWithDot(seg) /\ seg \notin {".", DotDot}
      [] pseg = "*.xpi" -> EndsWith(seg, ".xpi") /\ ~StartsWithDot(seg)
      [] pseg = "*.zip" -> EndsWith(seg, ".zip") /\ ~StartsWithDot(seg)
      [] OTHER -> pseg = seg

\* minimatch(file, pattern) on absolute paths, option dot unset: '**' stands
\* for any number of segments none of which begins with a dot, and a pattern
\* that ends in '**' needs at least one segment for it
RECURSIVE minimatch(_, _)
minimatch(file, pattern) ==
    IF pattern = <<>>
    THEN file = <<>>
    ELSE IF file = <<>>
         THEN FALSE
         ELSE IF Head(pattern) = "**"
              THEN IF Len(pattern) = 1
                   THEN \A i \in 1..Len(file) : ~StartsWithDot(file[i])
                   ELSE \/ minimatch(file, Tail(pattern))
                        \/ /\ ~StartsWithDot(Head(file))
                           /\ minimatch(Tail(file), pattern)
              ELSE /\ SegMatch(Head(pattern), Head(file))
                   /\ minimatch(Tail(file), Tail(pattern))

\* multimatch(item, patterns) from the result so far: a pattern adds the item
\* it matches, a pattern with a leading '!' removes the item it matches
RECURSIVE multimatchLoop(_, _, _)
multimatchLoop(item, patterns, result) ==
    IF patterns = <<>>
    THEN result
    ELSE multimatchLoop(item, Tail(patterns),
             IF minimatch(item, Head(patterns).pattern)
             THEN IF Head(patterns).bang THEN result \ {item} ELSE result \cup {item}
             ELSE result)

multimatch(item, patterns) == multimatchLoop(item, patterns, {})

\* an entry of an ignore list: the pattern string file, with a leading '!'
\* when bang
Pattern(bang, abs, segs) == [bang |-> bang, path |-> Path(abs, segs)]

\* the default of baseIgnoredPatterns
DefaultIgnoredPatterns ==
    <<Pattern(FALSE, FALSE, <<"**", "*.xpi">>),
      Pattern(FALSE, FALSE, <<"**", "*.zip">>),
      Pattern(FALSE, FALSE, <<"**", ".*">>),
      Pattern(FALSE, FALSE, <<"**", ".*", "**", "*">>),
      Pattern(FALSE, FALSE, <<"**", "node_modules">>),
      Pattern(FALSE, FALSE, <<"**", "node_modules", "**", "*">>)>>

\* resolveWithSourceDir(file)
resolveWithSourceDir(sourceDir, file) == resolve(sourceDir, file)

\* addToIgnoreList pushing a negated pattern without its '!'
addToIgnoreListDropsBang(filesToIgnore, sourceDir, files) ==
    filesToIgnore \o
        [i \in 1..Len(files) |->
            [bang |-> FALSE, pattern |-> resolveWithSourceDir(sourceDir, files[i].path)]]

\* addToIgnoreList(files): filesToIgnore after the pushes
addToIgnoreList(filesToIgnore, sourceDir, files) ==
    filesToIgnore \o
        [i \in 1..Len(files) |->
            IF files[i].bang
            THEN [bang |-> TRUE, pattern |-> resolveWithSourceDir(sourceDir, files[i].path)]
            ELSE [bang |-> FALSE, pattern |-> resolveWithSourceDir(sourceDir, files[i].path)]]

\* new FileFilter({baseIgnoredPatterns, ignoreFiles, sourceDir, artifactsDir})
FileFilter(p) ==
    LET sourceDir == resolve(Cwd, p.sourceDir)
        base == addToIgnoreList(<<>>, sourceDir, p.baseIgnoredPatterns)
        ignored == addToIgnoreList(base, sourceDir, p.ignoreFiles)
        artifactsDir == Path(TRUE, resolve(Cwd, p.artifactsDir))
    IN [made |-> TRUE,
        sourceDir |-> sourceDir,
        filesToIgnore |->
            IF TruthyPath(p.artifactsDir) /\ isSubPath(Path(TRUE, sourceDir), p.artifactsDir)
            THEN addToIgnoreList(ignored, sourceDir,
                     <<[bang |-> FALSE, path |-> artifactsDir],
                       [bang |-> FALSE, path |-> join(artifactsDir, <<"**", "*">>)]>>)
            ELSE ignored]

\* wantFile(filePath)
wantFile(filter, filePath) ==
    LET resolvedPath == resolveWithSourceDir(filter.sourceDir, filePath)
        matches == multimatch(resolvedPath, filter.filesToIgnore)
    IN IF Cardinality(matches) > 0 THEN FALSE ELSE TRUE

\* the class fields before the constructor has run
NoFileFilter == [made |-> FALSE, sourceDir |-> <<>>, filesToIgnore |-> <<>>]

\* no call of the file filter module has just answered
NoCall == [op |-> "none", src |-> NoPath, target |-> NoPath, answer |-> FALSE]

\* The parameters a FileFilter is constructed with.
FilterParams(base, ignoreFiles, sourceDir, artifactsDir) ==
    [baseIgnoredPatterns |-> base, ignoreFiles |-> ignoreFiles,
     sourceDir |-> sourceDir, artifactsDir |-> artifactsDir]
\* no FileFilter is constructed
NoFilterParams == FilterParams(<<>>, <<>>, NoPath, NoPath)

(***************************************************************************)
(* constructor(params)                                                     *)
(***************************************************************************)
Init ==
    /\ plan \in CallPlans
    /\ params \in Configs
    /\ reloadableExtensions = EmptyMap
    /\ cleanupCallbacks = <<>>
    /\ profile = Undefined
    /\ remoteFirefox = Undefined
    /\ runningInfo = Undefined
    /\ runPc = "idle"
    /\ runIdx = 0
    /\ runSession = Undefined
    /\ runs = <<>>
    /\ reloads = <<>>
    /\ profiles = <<>>
    /\ processes = <<>>
    /\ sessions = <<>>
    /\ registerLog = <<>>
    /\ cleanupLog = <<>>
    /\ exitLog = <<>>
    /\ filterParams = NoFilterParams
    /\ fileFilter = NoFileFilter
    /\ filterCall = NoCall

(***************************************************************************)
(* registerCleanup(fn)                                                     *)
(***************************************************************************)
\* registerCleanup that invokes at once a callback registered after a close
registerCleanupRunsLate(fn) ==
    /\ Len(registerLog) < plan.register
    /\ cleanupCallbacks' = SetAdd(cleanupCallbacks, fn)
    /\ registerLog' = Append(registerLog, fn)
    /\ cleanupLog' =
           IF \E p \in 1..Len(processes) : processes[p].closed
           THEN Append(cleanupLog, [process |-> runningInfo, invoked |-> <<fn>>,
                                    logged |-> <<>>, escaped |-> FALSE])
           ELSE cleanupLog
    /\ UNCHANGED <<callerVars, filterVars, reloadableExtensions, profile, remoteFirefox,
                   runningInfo, runTaskVars, reloads, envVars, exitLog>>

registerCleanup(fn) ==
    /\ Len(registerLog) < plan.register
    /\ cleanupCallbacks' = SetAdd(cleanupCallbacks, fn)
    /\ registerLog' = Append(registerLog, fn)
    /\ UNCHANGED <<callerVars, filterVars, reloadableExtensions, profile, remoteFirefox, runningInfo,
                   runTaskVars, reloads, envVars, cleanupLog, exitLog>>

(***************************************************************************)
(* exit(): throws when no process is tracked, else sends the kill signal.  *)
(***************************************************************************)
\* ExitThrows asking for a process that has not closed
ExitThrowsIfClosed ==
    \/ runningInfo = Undefined
    \/ processes[runningInfo].closed

\* ExitThrows asking for a run() that resolved
ExitThrowsUnlessRunResolved ==
    \/ runningInfo = Undefined
    \/ ~ \E r \in 1..Len(runs) : runs[r].state = "resolved"

\* !this.runningInfo || !this.runningInfo.firefox
ExitThrows == runningInfo = Undefined

\* exit that runs the cleanup callbacks itself
exitAndCleanup ==
    /\ Len(exitLog) < plan.exit
    /\ ~ExitThrows
    /\ exitLog' = Append(exitLog, [threw |-> NoError, killed |-> runningInfo])
    /\ processes' = [processes EXCEPT ![runningInfo].kills = @ + 1]
    /\ cleanupLog' = Append(cleanupLog,
           [process |-> runningInfo, invoked |-> cleanupCallbacks,
            logged |-> <<>>, escaped |-> FALSE])
    /\ UNCHANGED <<callerVars, filterVars, runnerVars, runTaskVars, reloads, profiles, sessions,
                   registerLog>>

exit ==
    /\ Len(exitLog) < plan.exit
    /\ IF ExitThrows
       THEN /\ exitLog' = Append(exitLog, [threw |-> ErrNoFirefox, killed |-> Undefined])
            /\ UNCHANGED processes
       ELSE /\ exitLog' = Append(exitLog, [threw |-> NoError, killed |-> runningInfo])
            /\ processes' = [processes EXCEPT ![runningInfo].kills = @ + 1]
    /\ UNCHANGED <<callerVars, filterVars, runnerVars, runTaskVars, reloads, profiles, sessions,
                   registerLog, cleanupLog>>

(***************************************************************************)
(* The 'close' listener startFirefoxInstance registers on the process.     *)
(***************************************************************************)
Raises(cb) == cb \in RaisingCallbacks

\* CloseListener without the try/catch: the first error raised ends the loop
CloseListenerNoCatch(cbs) ==
    IF \E i \in 1..Len(cbs) : Raises(cbs[i])
    THEN [invoked |-> SubSeq(cbs, 1, CHOOSE i \in 1..Len(cbs) :
                                 /\ Raises(cbs[i])
                                 /\ \A j \in 1..(i - 1) : ~Raises(cbs[j])),
          logged |-> <<>>,
          escaped |-> TRUE]
    ELSE [invoked |-> cbs, logged |-> <<>>, escaped |-> FALSE]

\* One run of the listener over the callbacks: each callback is invoked inside
\* its own try/catch, a raised error is logged and the loop goes on.
CloseListener(cbs) ==
    [invoked |-> cbs,
     logged |-> SelectSeq(cbs, Raises),
     escaped |-> FALSE]

\* The process emits 'close' (once in its life): every listener runs.
ProcessClose(p) ==
    /\ ~processes[p].closed
    /\ processes' = [processes EXCEPT ![p].closed = TRUE]
    /\ cleanupLog' = cleanupLog \o
           [i \in 1..processes[p].listeners |->
               [process |-> p] @@ CloseListener(cleanupCallbacks)]
    /\ UNCHANGED <<callerVars, filterVars, runnerVars, runTaskVars, reloads, profiles, sessions,
                   registerLog, exitLog>>

(***************************************************************************)
(* run(): setupProfileDir() then startFirefoxInstance().  runPc names the  *)
(* await the call is suspended at.                                         *)
(***************************************************************************)
extensions == params.extensions

ThisRun == Len(runs)

\* RunRejects that leaves the call suspended where it was
RunRejectsAndStays(err) ==
    /\ runPc' = runPc
    /\ runIdx' = runIdx
    /\ runSession' = runSession
    /\ runs' = [runs EXCEPT ![ThisRun] = [@ EXCEPT !.state = "rejected", !.error = err]]

\* the promise run() returned rejects with err: no later step runs
RunRejects(err) ==
    /\ runPc' = "idle"
    /\ runIdx' = 0
    /\ runSession' = Undefined
    /\ runs' = [runs EXCEPT ![ThisRun] = [@ EXCEPT !.state = "rejected", !.error = err]]

\* the promise run() returned resolves
RunResolves ==
    /\ runPc' = "idle"
    /\ runIdx' = 0
    /\ runSession' = Undefined
    /\ runs' = [runs EXCEPT ![ThisRun].state = "resolved"]

\* which profile-manager operation setupProfileDir calls
ProfileOperation ==
    IF params.profilePath
    THEN IF params.keepProfileChanges THEN "useProfile" ELSE "copyProfile"
    ELSE "createProfile"

\* run() is called: it runs up to the await on the profile manager
run ==
    /\ runPc = "idle"
    /\ Len(runs) < plan.run
    /\ runs' = Append(runs, [state |-> "pending", error |-> NoError])
    /\ runPc' = "profile"
    /\ UNCHANGED <<callerVars, filterVars, runnerVars, runIdx, runSession, reloads, envVars,
                   registerLog, cleanupLog, exitLog>>

\* whether setupProfileDir pre-installs the extensions
PreInstalls == params.preInstall

\* the profile manager answers useProfile / copyProfile / createProfile
ProfileSettles ==
    /\ runPc = "profile"
    /\ \E ok \in BOOLEAN :
         IF ok
         THEN /\ profiles' = Append(profiles, [by |-> ProfileOperation, proxies |-> <<>>])
              /\ profile' = Len(profiles) + 1
              /\ IF PreInstalls /\ Len(extensions) > 0
                 THEN runPc' = "proxy" /\ runIdx' = 1
                 ELSE runPc' = "launch" /\ runIdx' = 0
              /\ UNCHANGED <<runSession, runs>>
         ELSE /\ RunRejects(ErrProfile)
              /\ UNCHANGED <<profiles, profile>>
    /\ UNCHANGED <<callerVars, filterVars, reloadableExtensions, cleanupCallbacks, remoteFirefox,
                   runningInfo, reloads, processes, sessions, registerLog,
                   cleanupLog, exitLog>>

\* the profile manager answers installExtension({asProxy: true, ...})
ProxyInstallSettles ==
    /\ runPc = "proxy"
    /\ \E ok \in BOOLEAN :
         IF ok
         THEN /\ profiles' = [profiles EXCEPT ![profile].proxies = Append(@, extensions[runIdx])]
              /\ IF runIdx < Len(extensions)
                 THEN runPc' = "proxy" /\ runIdx' = runIdx + 1
                 ELSE runPc' = "launch" /\ runIdx' = 0
              /\ UNCHANGED <<runSession, runs>>
         ELSE /\ RunRejects(ErrProxyInstall)
              /\ UNCHANGED profiles
    /\ UNCHANGED <<callerVars, filterVars, runnerVars, reloads, processes, sessions, registerLog,
                   cleanupLog, exitLog>>

\* OnClose that registers no listener
OnCloseNotRegistered(proc) == proc

\* this.runningInfo.firefox.on('close', ...)
OnClose(proc) == [proc EXCEPT !.listeners = @ + 1]

\* ConnectsRemote ignoring the pre-install flag
ConnectsRemoteAlways == TRUE

\* whether startFirefoxInstance connects and installs over the protocol
ConnectsRemote == ~params.preInstall

\* the process launcher answers firefoxApp.run(this.profile, ...)
LaunchSettles ==
    /\ runPc = "launch"
    /\ \E ok \in BOOLEAN :
         IF ok
         THEN /\ processes' = Append(processes,
                      OnClose([profile |-> profile, listeners |-> 0,
                               kills |-> 0, closed |-> FALSE]))
              /\ runningInfo' = Len(processes) + 1
              /\ IF ConnectsRemote
                 THEN /\ runPc' = "connect"
                      /\ UNCHANGED <<runIdx, runSession, runs>>
                 ELSE RunResolves
         ELSE /\ RunRejects(ErrLaunch)
              /\ UNCHANGED <<processes, runningInfo>>
    /\ UNCHANGED <<callerVars, filterVars, reloadableExtensions, cleanupCallbacks, profile,
                   remoteFirefox, reloads, profiles, sessions, registerLog,
                   cleanupLog, exitLog>>

\* the client factory answers firefoxClient({port})
ConnectSettles ==
    /\ runPc = "connect"
    /\ \E ok \in BOOLEAN :
         IF ok
         THEN /\ sessions' = Append(sessions, [process |-> runningInfo, installs |-> <<>>])
              /\ remoteFirefox' = Len(sessions) + 1
              /\ IF Len(extensions) > 0
                 THEN /\ runPc' = "install"
                      /\ runIdx' = 1
                      /\ runSession' = Len(sessions) + 1
                      /\ UNCHANGED runs
                 ELSE RunResolves
         ELSE /\ RunRejects(ErrConnect)
              /\ UNCHANGED <<sessions, remoteFirefox>>
    /\ UNCHANGED <<callerVars, filterVars, reloadableExtensions, cleanupCallbacks, profile,
                   runningInfo, reloads, profiles, processes, registerLog,
                   cleanupLog, exitLog>>

\* what installTemporaryAddon can answer: an addon with an id, an addon
\* without one, or a rejection
InstallAnswers(dir) ==
    [error : {NoError}, id : {AddonIdOf(dir), NoAddonId}]
    \cup [error : {RemoteTempInstallNotSupported, ErrInstall}, id : {NoAddonId}]

\* Truthy taking the empty id for an id
TruthyAlways(addonId) == TRUE

\* JavaScript truthiness of an addon id
Truthy(addonId) == addonId # NoAddonId

\* InstallError rewriting every rejection into the guidance error
InstallErrorAlwaysGuidance(answer) ==
    IF answer.error = NoError
    THEN IF Truthy(answer.id) THEN NoError ELSE ErrMissingAddonId
    ELSE ErrUsePreInstall

\* InstallError without the check for a missing addon id
InstallErrorNoIdCheck(answer) ==
    IF answer.error = NoError
    THEN NoError
    ELSE IF answer.error = RemoteTempInstallNotSupported
         THEN ErrUsePreInstall
         ELSE answer.error

\* the error the try/catch around one install ends with, NoError when the
\* install is recorded
InstallError(answer) ==
    IF answer.error = NoError
    THEN IF Truthy(answer.id) THEN NoError ELSE ErrMissingAddonId
    ELSE IF answer.error = RemoteTempInstallNotSupported
         THEN ErrUsePreInstall
         ELSE answer.error

\* the session answers installTemporaryAddon(extension.sourceDir, devtools)
InstallSettles ==
    /\ runPc = "install"
    /\ \E answer \in InstallAnswers(extensions[runIdx]) :
         /\ sessions' = [sessions EXCEPT ![runSession].installs =
                            Append(@, [sourceDir |-> extensions[runIdx], answer |-> answer])]
         /\ IF InstallError(answer) = NoError
            THEN /\ reloadableExtensions' =
                        MapSet(reloadableExtensions, extensions[runIdx], answer.id)
                 /\ IF runIdx < Len(extensions)
                    THEN /\ runIdx' = runIdx + 1
                         /\ UNCHANGED <<runPc, runSession, runs>>
                    ELSE RunResolves
            ELSE /\ RunRejects(InstallError(answer))
                 /\ UNCHANGED reloadableExtensions
    /\ UNCHANGED <<callerVars, filterVars, cleanupCallbacks, profile, remoteFirefox, runningInfo,
                   reloads, profiles, processes, registerLog, cleanupLog, exitLog>>

(***************************************************************************)
(* reloadExtensionBySourceDir(dir) and reloadAllExtensions().  A call is a *)
(* record of reloads: suspended at the await on reloadAddon (pc "await")   *)
(* or finished (pc "done").                                                *)
(***************************************************************************)
\* res.reloadError instanceof Error
IsError(e) == e.name # NoError.name

\* the three results reloadExtensionBySourceDir returns
NotReloadableResult(dir) ==
    [sourceDir |-> dir, reloadError |-> ErrNotReloadable(dir), runnerName |-> getName]
ReloadFailedResult(dir, error) ==
    [sourceDir |-> dir, reloadError |-> error, runnerName |-> getName]
ReloadedResult(dir) ==
    [sourceDir |-> dir, reloadError |-> NoError, runnerName |-> getName]

\* the addon id reloadExtensionBySourceDir looks up
LookupAddonId(dir) == MapGet(reloadableExtensions, dir)

\* IsReloadable deciding by the configuration instead of the recorded ids
IsReloadableIfConfigured(dir) == dir \in Range(params.extensions)

\* whether reloadExtensionBySourceDir(dir) goes on to call reloadAddon
IsReloadable(dir) == Truthy(LookupAddonId(dir))

\* this.remoteFirefox.reloadAddon(addonId), not yet answered
ReloadRequest(dir) ==
    [session |-> remoteFirefox, sourceDir |-> dir, addonId |-> LookupAddonId(dir),
     settled |-> FALSE, error |-> NoError]

\* TryReload without the try/catch: a rejection of reloadAddon is thrown on
TryReloadNoCatch(dir, error) ==
    [threw |-> error, res |-> ReloadedResult(dir)]

\* try { await reloadAddon(addonId) } catch (error) { return [...] } return [...]:
\* how the single reload ends once reloadAddon has answered with error
\* (NoError: it resolved).  threw is what the call throws, res what it returns.
TryReload(dir, error) ==
    [threw |-> NoError,
     res |-> IF error = NoError THEN ReloadedResult(dir) ELSE ReloadFailedResult(dir, error)]

\* Collect starting a new map at every failure
CollectInNewMap(reloadErrors, res) ==
    IF IsError(res.reloadError)
    THEN MapSet(EmptyMap, res.sourceDir, res.reloadError)
    ELSE reloadErrors

\* reloadErrors after one individual result
Collect(reloadErrors, res) ==
    IF IsError(res.reloadError)
    THEN MapSet(reloadErrors, res.sourceDir, res.reloadError)
    ELSE reloadErrors

\* what reloadAllExtensions returns after its loop
AllResult(reloadErrors) ==
    IF Cardinality(DOMAIN reloadErrors) > 0
    THEN <<[runnerName |-> getName, reloadError |-> MultiExtensionsReloadError(reloadErrors)]>>
    ELSE <<[runnerName |-> getName, reloadError |-> NoError]>>

NewReload(kind, dir) ==
    [kind |-> kind, sourceDir |-> dir, pc |-> "await", idx |-> 0,
     reloadErrors |-> EmptyMap, requests |-> <<>>, individual |-> <<>>,
     result |-> <<>>, threw |-> NoError]

\* the loop of reloadAllExtensions from extension i on, up to its next await
\* on reloadAddon or to its return
RECURSIVE AllLoop(_, _)
AllLoop(call, i) ==
    IF i > Len(extensions)
    THEN [call EXCEPT !.pc = "done", !.idx = 0, !.result = AllResult(call.reloadErrors)]
    ELSE IF IsReloadable(extensions[i])
         THEN [call EXCEPT !.pc = "await", !.idx = i,
                           !.requests = Append(@, ReloadRequest(extensions[i]))]
         ELSE AllLoop([call EXCEPT
                          !.individual = Append(@, NotReloadableResult(extensions[i])),
                          !.reloadErrors = Collect(@, NotReloadableResult(extensions[i]))],
                      i + 1)

\* reloadExtensionBySourceDir(dir) is called
reloadExtensionBySourceDir(dir) ==
    /\ Len(reloads) < plan.reload
    /\ reloads' = Append(reloads,
          IF IsReloadable(dir)
          THEN [NewReload("one", dir) EXCEPT !.requests = <<ReloadRequest(dir)>>]
          ELSE [NewReload("one", dir) EXCEPT !.pc = "done",
                                             !.result = <<NotReloadableResult(dir)>>])
    /\ UNCHANGED <<callerVars, filterVars, runnerVars, runTaskVars, envVars, registerLog,
                   cleanupLog, exitLog>>

\* reloadAllExtensions() is called
reloadAllExtensions ==
    /\ Len(reloads) < plan.reload
    /\ reloads' = Append(reloads, AllLoop(NewReload("all", ""), 1))
    /\ UNCHANGED <<callerVars, filterVars, runnerVars, runTaskVars, envVars, registerLog,
                   cleanupLog, exitLog>>

\* the call with its outstanding reloadAddon request answered with error
Answered(call, error) ==
    [call EXCEPT !.requests[Len(call.requests)].settled = TRUE,
                 !.requests[Len(call.requests)].error = error]

\* what reloadAddon can answer: it resolves (NoError) or rejects; on a
\* session that is undefined the call itself is a TypeError
ReloadAnswers(request) ==
    IF request.session = Undefined THEN {ErrTypeError} ELSE {NoError, ErrReload}

\* the call once its single reload has ended with outcome
Continue(call, outcome) ==
    IF outcome.threw # NoError
    THEN [call EXCEPT !.pc = "done", !.threw = outcome.threw]
    ELSE IF call.kind = "one"
         THEN [call EXCEPT !.pc = "done", !.result = <<outcome.res>>]
         ELSE AllLoop([call EXCEPT !.individual = Append(@, outcome.res),
                                   !.reloadErrors = Collect(@, outcome.res)],
                      call.idx + 1)

\* the session answers the reloadAddon(addonId) that call c awaits
ReloadSettles(c) ==
    /\ reloads[c].pc = "await"
    /\ LET call == reloads[c]
           request == call.requests[Len(call.requests)]
       IN \E error \in ReloadAnswers(request) :
             reloads' = [reloads EXCEPT ![c] =
                 Continue(Answered(call, error), TryReload(request.sourceDir, error))]
    /\ UNCHANGED <<callerVars, filterVars, runnerVars, runTaskVars, envVars, registerLog,
                   cleanupLog, exitLog>>

(***************************************************************************)
(* The runner and its collaborators.                                       *)
(***************************************************************************)
Next ==
    \/ run
    \/ ProfileSettles
    \/ ProxyInstallSettles
    \/ LaunchSettles
    \/ ConnectSettles
    \/ InstallSettles
    \/ \E dir \in Dirs : reloadExtensionBySourceDir(dir)
    \/ reloadAllExtensions
    \/ \E c \in 1..Len(reloads) : ReloadSettles(c)
    \/ \E fn \in Callbacks : registerCleanup(fn)
    \/ exit
    \/ \E p \in 1..Len(processes) : ProcessClose(p)

Spec == Init /\ [][Next]_vars

(***************************************************************************)
(* The file filter module and its caller.  The caller either uses the      *)
(* exported isSubPath on its own, or constructs one FileFilter and asks it *)
(* about paths.                                                            *)
(***************************************************************************)
\* the source directory of the filters
SourceDir == Path(TRUE, <<"a">>)

\* the artifacts directories a filter is constructed with: absent, equal to
\* the source directory, above it, beside it, below it
ArtifactsDirs == {Path(abs, segs) : abs \in BOOLEAN, segs \in SeqsOf(RawNames, 0, MaxDirLen)}

\* the patterns of ignoreFiles: a directory's content, one file of it
\* negated, a hidden file negated, one file by its absolute path
IgnorePatterns ==
    {Pattern(FALSE, FALSE, <<"b", "**">>),
     Pattern(TRUE, FALSE, <<"b", "a">>),
     Pattern(TRUE, FALSE, <<"..x">>),
     Pattern(FALSE, TRUE, <<"a", "b", "a">>)}

\* the filters: with every artifacts directory and no ignoreFiles, or with
\* ignoreFiles and the artifacts directory absent or below the source directory
FilterConfigs ==
    {FilterParams(base, <<>>, SourceDir, artifactsDir) :
        base \in {DefaultIgnoredPatterns, <<>>}, artifactsDir \in ArtifactsDirs}
    \cup
    {FilterParams(base, ignoreFiles, SourceDir, artifactsDir) :
        base \in {DefaultIgnoredPatterns, <<>>},
        ignoreFiles \in SeqsOf(IgnorePatterns, 1, MaxIgnoreFiles),
        artifactsDir \in {NoPath, Path(TRUE, <<"a", "b">>)}}

\* the paths wantFile is asked about, absolute or relative
FilePaths == {Path(abs, segs) : abs \in BOOLEAN, segs \in SeqsOf(Names, 0, MaxPathLen)}

\* the arguments isSubPath is called with
SubPathSources == {Path(abs, segs) : abs \in BOOLEAN, segs \in SeqsOf(RawNames, 0, MaxDirLen)}
SubPathTargets == {Path(abs, segs) : abs \in BOOLEAN, segs \in SeqsOf(RawNames, 0, MaxPathLen)}

\* a runner that is constructed and never called
NoCalls == [run |-> 0, reload |-> 0, register |-> 0, exit |-> 0]

FilterInit ==
    /\ filterParams \in FilterConfigs \cup {NoFilterParams}
    /\ fileFilter = NoFileFilter
    /\ filterCall = NoCall
    /\ plan = NoCalls
    /\ params = Config(FALSE, FALSE, FALSE)
    /\ reloadableExtensions = EmptyMap
    /\ cleanupCallbacks = <<>>
    /\ profile = Undefined
    /\ remoteFirefox = Undefined
    /\ runningInfo = Undefined
    /\ runPc = "idle"
    /\ runIdx = 0
    /\ runSession = Undefined
    /\ runs = <<>>
    /\ reloads = <<>>
    /\ profiles = <<>>
    /\ processes = <<>>
    /\ sessions = <<>>
    /\ registerLog = <<>>
    /\ cleanupLog = <<>>
    /\ exitLog = <<>>

\* createFileFilter(params)
createFileFilter ==
    /\ filterParams # NoFilterParams
    /\ ~fileFilter.made
    /\ fileFilter' = FileFilter(filterParams)
    /\ filterCall' = [NoCall EXCEPT !.op = "createFileFilter"]
    /\ UNCHANGED <<callerVars, filterParams, runnerVars, runTaskVars, reloads, envVars,
                   registerLog, cleanupLog, exitLog>>

\* the filter is asked wantFile(filePath)
CallWantFile ==
    /\ fileFilter.made
    /\ filterCall = NoCall
    /\ \E filePath \in FilePaths :
          filterCall' = [op |-> "wantFile", src |-> NoPath, target |-> filePath,
                         answer |-> wantFile(fileFilter, filePath)]
    /\ UNCHANGED <<callerVars, filterParams, fileFilter, runnerVars, runTaskVars, reloads,
                   envVars, registerLog, cleanupLog, exitLog>>

\* isSubPath(src, target) is called
CallIsSubPath ==
    /\ filterParams = NoFilterParams
    /\ filterCall = NoCall
    /\ \E src \in SubPathSources, target \in SubPathTargets :
          filterCall' = [op |-> "isSubPath", src |-> src, target |-> target,
                         answer |-> isSubPath(src, target)]
    /\ UNCHANGED <<callerVars, filterParams, fileFilter, runnerVars, runTaskVars, reloads,
                   envVars, registerLog, cleanupLog, exitLog>>

\* the caller has taken the answer of the last call
FilterCallReturns ==
    /\ filterCall # NoCall
    /\ filterCall' = NoCall
    /\ UNCHANGED <<callerVars, filterParams, fileFilter, runnerVars, runTaskVars, reloads,
                   envVars, registerLog, cleanupLog, exitLog>>

FilterNext ==
    \/ createFileFilter
    \/ FilterCallReturns
    \/ CallWantFile
    \/ CallIsSubPath

FilterSpec == FilterInit /\ [][FilterNext]_vars

(***************************************************************************)
(* Properties of the file filter.                                          *)
(***************************************************************************)
\* t extends s
AtOrBelow(s, t) == Len(t) >= Len(s) /\ SubSeq(t, 1, Len(s)) = s

\* t extends s by at least one segment
StrictlyBelow(s, t) == Len(t) > Len(s) /\ AtOrBelow(s, t)

\* target is written as src followed by one or more names
IsSrcSlashNames(src, target) ==
    /\ target.abs = src.abs
    /\ StrictlyBelow(src.segs, target.segs)
    /\ \A i \in (Len(src.segs) + 1)..Len(target.segs) : target.segs[i] \in Names

\* C11: isSubPath(src, target) is false when target is the same location as
\* src, false when the relative path from src to target begins with a
\* parent-traversal segment (the parent of src among them), true for every
\* other target, and so true for every target written src/x with x one or
\* more names.
C11_IsSubPathIsStrictDescent ==
    filterCall.op = "isSubPath" =>
        LET src == filterCall.src
            target == filterCall.target
        IN /\ resolve(Cwd, target) = resolve(Cwd, src) => ~filterCall.answer
           /\ AtOrBelow(<<DotDot>>, relative(src, target)) => ~filterCall.answer
           /\ filterCall.answer =
                 ~(\/ resolve(Cwd, target) = resolve(Cwd, src)
                   \/ AtOrBelow(<<DotDot>>, relative(src, target)))
           /\ filterCall.answer = StrictlyBelow(resolve(Cwd, src), resolve(Cwd, target))
           /\ IsSrcSlashNames(src, target) => filterCall.answer

\* isSubPath has answered true for the child of /a whose name begins with
\* two dots
C11_Witness ==
    /\ filterCall.op = "isSubPath"
    /\ filterCall.src = Path(TRUE, <<"a">>)
    /\ filterCall.target = Path(TRUE, <<"a", "..x">>)
    /\ filterCall.answer

\* the artifacts directory of the filter is supplied and lies strictly below
\* its source directory
ArtifactsDirIsBelow ==
    /\ TruthyPath(filterParams.artifactsDir)
    /\ StrictlyBelow(resolve(Cwd, filterParams.sourceDir),
                     resolve(Cwd, filterParams.artifactsDir))

\* C12: a filter constructed with an artifacts directory strictly below the
\* source directory answers wantFile = false for the artifacts directory and
\* for every path beneath it; constructed with any other artifacts directory
\* it answers every path as the filter constructed without one does.
C12_ArtifactsDirIsExcluded ==
    (fileFilter.made /\ filterCall.op = "wantFile") =>
        IF ArtifactsDirIsBelow
        THEN AtOrBelow(resolve(Cwd, filterParams.artifactsDir),
                       resolve(fileFilter.sourceDir, filterCall.target))
                => ~filterCall.answer
        ELSE filterCall.answer =
                wantFile(FileFilter([filterParams EXCEPT !.artifactsDir = NoPath]),
                         filterCall.target)

\* resolved is excluded by filesToIgnore: a pattern without '!' matches it
\* and no pattern with '!' after that one does
ExcludedNetOfNegations(filesToIgnore, resolved) ==
    \E i \in 1..Len(filesToIgnore) :
        /\ ~filesToIgnore[i].bang
        /\ minimatch(resolved, filesToIgnore[i].pattern)
        /\ \A j \in (i + 1)..Len(filesToIgnore) :
              filesToIgnore[j].bang => ~minimatch(resolved, filesToIgnore[j].pattern)

\* the sequence without its j-th element
Without(s, j) == SubSeq(s, 1, j - 1) \o SubSeq(s, j + 1, Len(s))

\* ignoreFiles[j] is the negated pattern of one file, ignoreFiles[i] before
\* it is an exclusion that covers the file, and no exclusion after the
\* negated pattern matches the file
ReIncludes(i, j) ==
    LET ignoreFiles == filterParams.ignoreFiles
        file == resolve(fileFilter.sourceDir, ignoreFiles[j].path)
        at == Len(filterParams.baseIgnoredPatterns) + j
    IN /\ i < j
       /\ ~ignoreFiles[i].bang
       /\ ignoreFiles[j].bang
       /\ Range(ignoreFiles[j].path.segs) \subseteq Names
       /\ minimatch(file, resolve(fileFilter.sourceDir, ignoreFiles[i].path))
       /\ \A k \in (at + 1)..Len(fileFilter.filesToIgnore) :
             fileFilter.filesToIgnore[k].bang
             \/ ~minimatch(file, fileFilter.filesToIgnore[k].pattern)

\* C13: wantFile(path) is false exactly when a pattern without '!' matches
\* the resolved path and no negated pattern after it in the ordered ignore
\* list does; a negated pattern for one file, placed after an exclusion that
\* covers the file, makes wantFile true for that file and changes the answer
\* for no other path, so every other path the exclusion matches stays excluded.
C13_NegationReIncludes ==
    (fileFilter.made /\ filterCall.op = "wantFile") =>
        LET resolved == resolve(fileFilter.sourceDir, filterCall.target)
            ignoreFiles == filterParams.ignoreFiles
        IN /\ filterCall.answer =
                 ~ExcludedNetOfNegations(fileFilter.filesToIgnore, resolved)
           /\ \A i, j \in 1..Len(ignoreFiles) :
                 ReIncludes(i, j) =>
                    IF resolved = resolve(fileFilter.sourceDir, ignoreFiles[j].path)
                    THEN filterCall.answer
                    ELSE /\ filterCall.answer =
                              wantFile(FileFilter([filterParams EXCEPT
                                           !.ignoreFiles = Without(ignoreFiles, j)]),
                                       filterCall.target)
                         /\ (/\ minimatch(resolved,
                                         resolve(fileFilter.sourceDir, ignoreFiles[i].path))
                             /\ \A k \in 1..Len(ignoreFiles) :
                                   (k # j /\ ignoreFiles[k].bang) =>
                                      ~minimatch(resolved,
                                           resolve(fileFilter.sourceDir, ignoreFiles[k].path)))
                               => ~filterCall.answer

\* with the default patterns and ignoreFiles ['b/**', '!b/a'] the filter has
\* answered that b/a is wanted
C13_Witness ==
    /\ fileFilter.made
    /\ filterParams.baseIgnoredPatterns = DefaultIgnoredPatterns
    /\ filterParams.ignoreFiles =
           <<Pattern(FALSE, FALSE, <<"b", "**">>), Pattern(TRUE, FALSE, <<"b", "a">>)>>
    /\ filterCall.op = "wantFile"
    /\ filterCall.target = Path(FALSE, <<"b", "a">>)
    /\ filterCall.answer

(***************************************************************************)
(* Properties of reloadableExtensions.                                     *)
(***************************************************************************)
\* every temporary install a session has answered so far
AnsweredInstalls ==
    UNION {Range(sessions[s].installs) : s \in 1..Len(sessions)}

\* the directories whose temporary install a session has answered with an addon id
TempInstalled ==
    {i.sourceDir : i \in {a \in AnsweredInstalls :
                             a.answer.error = NoError /\ a.answer.id # NoAddonId}}

\* the directories proxy-installed into some profile
ProxyInstalled ==
    UNION {Range(profiles[p].proxies) : p \in 1..Len(profiles)}

\* C1: in every reachable state a source directory is a key of
\* reloadableExtensions if and only if a temporary install for it has completed
\* successfully over a protocol session (the session answered with an addon
\* id); a proxy install never makes a key, and a key is never removed.
C1_KeysAreTheTempInstalled ==
    /\ [](DOMAIN reloadableExtensions = TempInstalled)
    /\ [](ProxyInstalled # {} => DOMAIN reloadableExtensions = {})
    /\ [][DOMAIN reloadableExtensions \subseteq DOMAIN reloadableExtensions']_vars

\* a run() failed part-way: d1 was installed and recorded, d2 was answered
\* with a failure and is no key
C1_Witness ==
    /\ \E r \in 1..Len(runs) : runs[r].state = "rejected"
    /\ DOMAIN reloadableExtensions = {"d1"}
    /\ \E a \in AnsweredInstalls : a.sourceDir = "d2" /\ a.answer.error = ErrInstall

(***************************************************************************)
(* Properties of the reload operations.                                    *)
(***************************************************************************)
\* the reloadAddon requests call made for directory dir
RequestsFor(call, dir) ==
    {i \in 1..Len(call.requests) : call.requests[i].sourceDir = dir}

\* how the individual reload of dir went within call, seen from outside the
\* runner: no reloadAddon was sent for it (it had no recorded id), or the
\* session rejected the reloadAddon sent for it, or it resolved (NoError)
IndividualFailure(call, dir) ==
    IF RequestsFor(call, dir) = {}
    THEN ErrNotReloadable(dir)
    ELSE call.requests[CHOOSE i \in RequestsFor(call, dir) : TRUE].error

FailedDirs(call) ==
    {dir \in Range(extensions) : IndividualFailure(call, dir) # NoError}

\* C2: reloadAllExtensions() returns a single-element array; its element
\* carries no error when every configured extension's reload succeeded, and
\* otherwise one aggregate error whose mapping has as keys exactly the
\* directories whose individual reload failed, each mapped to its own failure.
C2_AggregateOfTheFailures ==
    \A c \in 1..Len(reloads) :
        LET call == reloads[c] IN
        (call.kind = "all" /\ call.pc = "done") =>
            /\ call.threw = NoError
            /\ Len(call.result) = 1
            /\ IF FailedDirs(call) = {}
               THEN call.result[1].reloadError = NoError
               ELSE /\ call.result[1].reloadError.name = "MultiExtensionsReloadError"
                    /\ call.result[1].reloadError.errorsBySourceDir =
                           [dir \in FailedDirs(call) |-> IndividualFailure(call, dir)]

\* a reloadAllExtensions() has returned after d1 reloaded and the reloadAddon
\* of d2 was rejected: the aggregate is keyed by d2 only
C2_Witness ==
    \E c \in 1..Len(reloads) :
        /\ reloads[c].kind = "all" /\ reloads[c].pc = "done"
        /\ Len(reloads[c].requests) = 2
        /\ reloads[c].requests[1].error = NoError
        /\ reloads[c].requests[2].error = ErrReload
        /\ DOMAIN reloads[c].result[1].reloadError.errorsBySourceDir = {"d2"}

\* C3: reloadExtensionBySourceDir(dir) for a directory with no recorded addon
\* id returns a one-element result whose error is the untracked-extension
\* error, and that call never invokes reloadAddon (a returned call makes no
\* further request).
C3_UntrackedReloadSendsNothing ==
    [][/\ \A c \in 1..Len(reloads') :
            (/\ c > Len(reloads)
             /\ reloads'[c].kind = "one"
             /\ reloads'[c].sourceDir \notin DOMAIN reloadableExtensions)
            => /\ reloads'[c].pc = "done"
               /\ reloads'[c].threw = NoError
               /\ reloads'[c].requests = <<>>
               /\ reloads'[c].result =
                     <<[sourceDir |-> reloads'[c].sourceDir,
                        reloadError |-> ErrNotReloadable(reloads'[c].sourceDir),
                        runnerName |-> getName]>>
       /\ \A c \in 1..Len(reloads) :
            reloads[c].pc = "done" => reloads'[c] = reloads[c]
      ]_vars

\* the extensions were pre-installed, run() resolved, and a reload of d1 has
\* returned the untracked-extension error without a request
C3_Witness ==
    /\ params.preInstall
    /\ \E r \in 1..Len(runs) : runs[r].state = "resolved"
    /\ "d1" \in ProxyInstalled
    /\ \E c \in 1..Len(reloads) :
        /\ reloads[c].kind = "one" /\ reloads[c].sourceDir = "d1"
        /\ reloads[c].pc = "done" /\ reloads[c].requests = <<>>
        /\ reloads[c].result[1].reloadError = ErrNotReloadable("d1")

(***************************************************************************)
(* Properties of exit() and of the cleanup callbacks.                      *)
(***************************************************************************)
SomeRunResolved == \E r \in 1..Len(runs) : runs[r].state = "resolved"

\* this step is a call of exit()
ExitStep == Len(exitLog') = Len(exitLog) + 1

\* this step is exit() sending one kill signal to process p and nothing else
KillsOnly(p) ==
    /\ exitLog'[Len(exitLog')] = [threw |-> NoError, killed |-> p]
    /\ processes' = [processes EXCEPT ![p].kills = @ + 1]

\* this step is exit() failing with the 'no process running' error
FailsNoFirefox ==
    /\ exitLog'[Len(exitLog')] = [threw |-> ErrNoFirefox, killed |-> Undefined]
    /\ processes' = processes

\* C4 as claimed: exit() before any successful run() fails with the
\* configuration error and sends no termination signal, exit() after a
\* successful run() sends a termination request to the tracked process, in
\* every history, also when a run() launched the process and then failed.
C4_ExitFailsBeforeASuccessfulRun ==
    [][ExitStep =>
          IF SomeRunResolved THEN KillsOnly(Len(processes)) ELSE FailsNoFirefox]_vars

\* C4 amended: exit() before any run() has launched a process fails with the
\* configuration error and sends no termination signal; exit() after a run()
\* has launched a process, whether that run() then succeeded or failed, sends
\* a termination request to the process launched last.
C4_ExitFailsBeforeALaunch ==
    [][ExitStep =>
          IF processes # <<>> THEN KillsOnly(Len(processes)) ELSE FailsNoFirefox]_vars

\* exit() failed before the run(); the run() launched a process and failed
\* at the protocol connection; the next exit() sent the kill signal
C4_Witness ==
    /\ ~SomeRunResolved
    /\ Len(runs) = 1 /\ runs[1].error = ErrConnect
    /\ Len(exitLog) = 2
    /\ exitLog[1].threw = ErrNoFirefox
    /\ exitLog[2].killed = 1
    /\ processes[1].kills = 1

\* s lists, without repetition, the callbacks of log in the order of their
\* first registration
IsFirstRegistrationOrder(s, log) ==
    LET First(cb) == CHOOSE i \in 1..Len(log) :
                        log[i] = cb /\ \A j \in 1..(i - 1) : log[j] # cb
    IN /\ Range(s) = Range(log)
       /\ \A i, j \in 1..Len(s) : i < j => First(s[i]) < First(s[j])

\* this step is process p emitting 'close'
CloseStep(p) == ~processes[p].closed /\ processes'[p].closed

\* C5: when the process-close event fires, every callback registered before
\* it is invoked, in registration order; a callback that raises prevents no
\* later callback and its error does not leave the close listener.
C5_CloseInvokesAllInOrder ==
    [][\A p \in 1..Len(processes) :
          CloseStep(p) =>
             /\ Len(cleanupLog') = Len(cleanupLog) + 1
             /\ cleanupLog'[Len(cleanupLog')].process = p
             /\ IsFirstRegistrationOrder(cleanupLog'[Len(cleanupLog')].invoked, registerLog)
             /\ cleanupLog'[Len(cleanupLog')].logged =
                    SelectSeq(cleanupLog'[Len(cleanupLog')].invoked, Raises)
             /\ ~cleanupLog'[Len(cleanupLog')].escaped]_vars

\* three callbacks were registered, the second raises, and a close has
\* invoked all three in order
C5_Witness ==
    /\ registerLog = <<"cb1", "cb2", "cb3">>
    /\ \E e \in 1..Len(cleanupLog) :
          /\ cleanupLog[e].invoked = <<"cb1", "cb2", "cb3">>
          /\ cleanupLog[e].logged = <<"cb2">>

\* how many times callback cb has been invoked so far
Invocations(cb) ==
    Cardinality({<<e, i>> \in (1..Len(cleanupLog)) \X (1..Cardinality(Callbacks)) :
                    i <= Len(cleanupLog[e].invoked) /\ cleanupLog[e].invoked[i] = cb})

\* C6: over the whole lifetime of a runner no registered cleanup callback is
\* invoked a second time, whatever follows (a second run() on the same
\* runner, calls to exit(), further closes).
C6_NoCallbackInvokedTwice ==
    \A cb \in Callbacks : Invocations(cb) <= 1

NoDuplicates(s) == \A i, j \in 1..Len(s) : i # j => s[i] # s[j]

IsPrefix(s, t) == Len(s) <= Len(t) /\ s = SubSeq(t, 1, Len(s))

\* C7: registerCleanup is idempotent by callback identity: however often a
\* callback is registered the cleanup set holds it once, at the position of
\* its first registration, and a close invokes it once, at that position.
C7_RegisterIsIdempotent ==
    /\ NoDuplicates(cleanupCallbacks)
    /\ IsFirstRegistrationOrder(cleanupCallbacks, registerLog)
    /\ \A e \in 1..Len(cleanupLog) :
          /\ NoDuplicates(cleanupLog[e].invoked)
          /\ IsPrefix(cleanupLog[e].invoked, cleanupCallbacks)

\* a callback was registered twice, then another one, and a close has
\* invoked the two of them
C7_Witness ==
    /\ Len(registerLog) = 3
    /\ registerLog[1] = registerLog[2]
    /\ registerLog[3] # registerLog[1]
    /\ \E e \in 1..Len(cleanupLog) :
          cleanupLog[e].invoked = <<registerLog[1], registerLog[3]>>

\* C8: exit() invokes no cleanup callback and does not wait for termination:
\* it leaves the cleanup set, reloadableExtensions, runningInfo and the
\* closed state of every process unchanged; a cleanup callback is invoked
\* only in a step in which a process closes, never in a step of exit(),
\* run(), registerCleanup() or a reload.
C8_OnlyCloseInvokesCleanups ==
    [][/\ ExitStep =>
            /\ cleanupLog' = cleanupLog
            /\ cleanupCallbacks' = cleanupCallbacks
            /\ reloadableExtensions' = reloadableExtensions
            /\ runningInfo' = runningInfo
            /\ \A p \in 1..Len(processes) : processes'[p].closed = processes[p].closed
       /\ cleanupLog' # cleanupLog =>
            /\ \E p \in 1..Len(processes) : CloseStep(p)
            /\ <<runs, runPc, reloads, registerLog, exitLog>>' =
                   <<runs, runPc, reloads, registerLog, exitLog>>
      ]_vars

\* exit() has sent the kill signal to a process that has not closed, and the
\* registered callback has not been invoked
C8_Witness ==
    /\ cleanupCallbacks # <<>>
    /\ cleanupLog = <<>>
    /\ \E e \in 1..Len(exitLog) :
          /\ exitLog[e].threw = NoError
          /\ ~processes[exitLog[e].killed].closed
          /\ processes[exitLog[e].killed].kills > 0

\* C9: reload failures are captured in the returned result and never thrown:
\* in every reachable state each reload call, single or of all extensions,
\* has thrown nothing, a returned call holds a one-element result, and every
\* rejection of reloadAddon is found in the result of the call that sent it.
C9_ReloadNeverThrows ==
    \A c \in 1..Len(reloads) :
        LET call == reloads[c] IN
        /\ call.threw = NoError
        /\ call.pc = "done" =>
             /\ Len(call.result) = 1
             /\ \A i \in 1..Len(call.requests) :
                   call.requests[i].error # NoError =>
                      IF call.kind = "one"
                      THEN call.result[1].reloadError = call.requests[i].error
                      ELSE call.result[1].reloadError.errorsBySourceDir[
                               call.requests[i].sourceDir] = call.requests[i].error

\* while run() is still installing d2, a reload of d1 was rejected by the
\* session and has returned that rejection as its result
C9_Witness ==
    /\ runPc = "install"
    /\ \E c \in 1..Len(reloads) :
          /\ reloads[c].kind = "one" /\ reloads[c].pc = "done"
          /\ Len(reloads[c].requests) = 1
          /\ reloads[c].requests[1].error = ErrReload
          /\ reloads[c].result[1].reloadError = ErrReload

\* C10: with pre-install, every process is launched on a profile into which
\* every configured extension has been proxy-installed, no protocol session
\* is ever opened and no temporary install attempted, reloadableExtensions
\* stays empty, and every reload yields the untracked-extension error.
C10_PreInstallNeverTracks ==
    params.preInstall =>
        /\ sessions = <<>>
        /\ remoteFirefox = Undefined
        /\ runPc \notin {"connect", "install"}
        /\ DOMAIN reloadableExtensions = {}
        /\ \A p \in 1..Len(processes) :
              profiles[processes[p].profile].proxies = extensions
        /\ \A c \in 1..Len(reloads) :
              /\ reloads[c].pc = "done"
              /\ reloads[c].requests = <<>>
              /\ Len(reloads[c].result) = 1
              /\ IF reloads[c].kind = "one"
                 THEN reloads[c].result[1].reloadError =
                          ErrNotReloadable(reloads[c].sourceDir)
                 ELSE reloads[c].result[1].reloadError.errorsBySourceDir =
                          [dir \in Range(extensions) |-> ErrNotReloadable(dir)]

\* with pre-install, run() has resolved with a process launched, and a
\* reload of every extension and one of d2 have returned
C10_Witness ==
    /\ params.preInstall
    /\ SomeRunResolved
    /\ Len(processes) = 1
    /\ Len(reloads) = 2
    /\ reloads[1].kind = "all" /\ reloads[1].pc = "done"
    /\ reloads[2].kind = "one" /\ reloads[2].sourceDir = "d2"

(***************************************************************************)
(* Properties of the requests on the protocol session.                     *)
(***************************************************************************)
\* the reloadAddon requests the runner has sent and the session has not answered
OutstandingReloads ==
    {<<c, i>> \in (1..Len(reloads)) \X (1..Len(extensions)) :
        i <= Len(reloads[c].requests) /\ ~reloads[c].requests[i].settled}

\* the installTemporaryAddon requests the runner has sent and the session
\* has not answered
OutstandingInstalls == IF runPc = "install" THEN {ThisRun} ELSE {}

\* the place of dir in the configuration
ConfigurationOrder(dir) == CHOOSE i \in 1..Len(extensions) : extensions[i] = dir

\* C14: at every moment at most one reloadAddon request and at most one
\* installTemporaryAddon request of the runner is outstanding on the
\* protocol session, and within one reloadAllExtensions() call the requests
\* are sent in configuration order, each after the one before it has settled.
C14_NoConcurrentRequests ==
    /\ Cardinality(OutstandingReloads) <= 1
    /\ Cardinality(OutstandingInstalls) <= 1
    /\ \A c \in 1..Len(reloads) :
          reloads[c].kind = "all" =>
             \A i, j \in 1..Len(reloads[c].requests) :
                i < j =>
                   /\ reloads[c].requests[i].settled
                   /\ ConfigurationOrder(reloads[c].requests[i].sourceDir)
                         < ConfigurationOrder(reloads[c].requests[j].sourceDir)

(***************************************************************************)
(* Properties of a run() that fails.                                       *)
(***************************************************************************)
\* this step makes the run() in progress fail
RunFailsStep ==
    /\ runPc # "idle"
    /\ runs[ThisRun].state = "pending"
    /\ runs'[ThisRun].state = "rejected"

\* this step is the session answering the install the run() is waiting for
InstallStep ==
    /\ runPc = "install"
    /\ Len(sessions'[runSession].installs) = Len(sessions[runSession].installs) + 1

\* the answer of the session in an InstallStep
Answer == sessions'[runSession].installs[Len(sessions'[runSession].installs)].answer

\* the error the step the run() is suspended at has failed with
StepError ==
    CASE runPc = "profile" -> ErrProfile
      [] runPc = "proxy" -> ErrProxyInstall
      [] runPc = "launch" -> ErrLaunch
      [] runPc = "connect" -> ErrConnect
      [] runPc = "install" ->
            IF Answer.error = NoError
            THEN ErrMissingAddonId
            ELSE IF Answer.error = RemoteTempInstallNotSupported
                 THEN ErrUsePreInstall
                 ELSE Answer.error

\* C15: when a step of run() fails (profile preparation, a proxy install, the
\* launch, the protocol connection, a temporary install), run() fails with
\* the error of that step and performs no later step: nothing more is asked
\* of the collaborators until run() is called again.  Nothing is rolled
\* back: no process receives a termination signal, runningInfo, profile and
\* remoteFirefox keep their values, and reloadableExtensions keeps the
\* identifiers recorded before the failure.
C15_RunFailureStopsWithoutRollback ==
    [][/\ RunFailsStep =>
            /\ runs'[ThisRun].error = StepError
            /\ runPc' = "idle"
            /\ runs' = [runs EXCEPT ![ThisRun] = runs'[ThisRun]]
            /\ \A p \in 1..Len(processes) : processes'[p] = processes[p]
            /\ Len(processes') = Len(processes)
            /\ <<runningInfo, profile, remoteFirefox, reloadableExtensions>>' =
                   <<runningInfo, profile, remoteFirefox, reloadableExtensions>>
       /\ runPc = "idle" =>
            /\ <<profiles, sessions, reloadableExtensions>>' =
                   <<profiles, sessions, reloadableExtensions>>
            /\ Len(processes') = Len(processes)
            /\ \A r \in 1..Len(runs) : runs'[r] = runs[r]
      ]_vars

\* run() launched the process, installed d1 and failed at the install of d2:
\* the process has received no signal, runningInfo is set and d1 is recorded
C15_Witness ==
    /\ runPc = "idle"
    /\ Len(runs) = 1 /\ runs[1].state = "rejected" /\ runs[1].error = ErrInstall
    /\ runningInfo = 1
    /\ processes[1].kills = 0 /\ ~processes[1].closed
    /\ DOMAIN reloadableExtensions = {"d1"}
    /\ Len(sessions[1].installs) = 2

\* C16: when the session rejects a temporary install, run() fails; its error
\* is the guidance error exactly when the rejection was the
\* version-incompatibility failure and is the rejection itself otherwise.
\* The failed install records nothing, and no install is attempted for a
\* later extension: in every session only the last answered install can be
\* a failed one.
C16_GuidanceOnlyForUnsupportedInstall ==
    /\ [][(InstallStep /\ Answer.error # NoError) =>
             /\ runs'[ThisRun].state = "rejected"
             /\ (runs'[ThisRun].error = ErrUsePreInstall)
                    <=> (Answer.error = RemoteTempInstallNotSupported)
             /\ Answer.error # RemoteTempInstallNotSupported =>
                    runs'[ThisRun].error = Answer.error
             /\ reloadableExtensions' = reloadableExtensions
             /\ runPc' = "idle"]_vars
    /\ [](\A s \in 1..Len(sessions) :
             \A i \in 1..(Len(sessions[s].installs) - 1) :
                 /\ sessions[s].installs[i].answer.error = NoError
                 /\ sessions[s].installs[i].sourceDir = extensions[i])

\* the install of d1 was rejected as unsupported: run() has failed with the
\* guidance error, d2 was never attempted and nothing is recorded
C16_Witness ==
    /\ Len(runs) = 1 /\ runs[1].error = ErrUsePreInstall
    /\ Len(sessions) = 1
    /\ Len(sessions[1].installs) = 1
    /\ sessions[1].installs[1].sourceDir = "d1"
    /\ sessions[1].installs[1].answer.error = RemoteTempInstallNotSupported
    /\ DOMAIN reloadableExtensions = {}

(***************************************************************************)
(* Properties of the close listener and of runningInfo.                    *)
(***************************************************************************)
\* this step launches a process
LaunchStep == Len(processes') = Len(processes) + 1

\* C17: the close listener is registered in the step that launches the
\* process, before the protocol connection and any install is attempted, so
\* every launched process has its listener, and its close runs the
\* registered callbacks whatever became of run(); a cleanup callback is run
\* only for a launched process, so never when no launch succeeded.
C17_ListenerRegisteredAtLaunch ==
    /\ [](\A p \in 1..Len(processes) : processes[p].listeners = 1)
    /\ [](\A e \in 1..Len(cleanupLog) : cleanupLog[e].process \in 1..Len(processes))
    /\ [](processes = <<>> => cleanupLog = <<>>)
    /\ [][/\ LaunchStep =>
               /\ runPc = "launch"
               /\ processes'[Len(processes')].listeners = 1
               /\ sessions' = sessions
               /\ runSession' = Undefined
          /\ \A p \in 1..Len(processes) :
               CloseStep(p) =>
                  /\ Len(cleanupLog') = Len(cleanupLog) + 1
                  /\ cleanupLog'[Len(cleanupLog')].process = p
                  /\ cleanupLog'[Len(cleanupLog')].invoked = cleanupCallbacks
         ]_vars

\* run() launched the process and failed at the protocol connection; the
\* process has closed and the registered callback was invoked
C17_Witness ==
    /\ Len(runs) = 1 /\ runs[1].state = "rejected" /\ runs[1].error = ErrConnect
    /\ processes[1].closed
    /\ Len(cleanupLog) = 1
    /\ cleanupLog[1].invoked = <<"cb1">>

\* C18: once a launch has set runningInfo, no operation of the runner and no
\* close of a process clears it (a later launch replaces it by the new
\* process); so exit() on a process that has closed, or a second exit(),
\* does not fail: it sends one more termination signal to the same process.
C18_RunningInfoIsNeverCleared ==
    [][/\ runningInfo # Undefined =>
            \/ runningInfo' = runningInfo
            \/ LaunchStep /\ runningInfo' = Len(processes')
       /\ \A p \in 1..Len(processes) : CloseStep(p) => runningInfo' = runningInfo
       /\ (ExitStep /\ runningInfo # Undefined) =>
            /\ KillsOnly(runningInfo)
            /\ runningInfo' = runningInfo
      ]_vars

\* the process has closed and exit() was called twice: both calls sent the
\* signal to the same process
C18_Witness ==
    /\ runningInfo = 1
    /\ processes[1].closed
    /\ processes[1].kills = 2
    /\ Len(exitLog) = 2
    /\ exitLog[1] = [threw |-> NoError, killed |-> 1]
    /\ exitLog[2] = [threw |-> NoError, killed |-> 1]

\* C19: every value of reloadableExtensions is a non-empty addon id, and every
\* reloadAddon request carries one.  An install answered without an addon
\* id makes run() fail with the missing-addonId error, records nothing and
\* is the last install of that run().
C19_RecordedIdsAreNonEmpty ==
    /\ [](\A dir \in DOMAIN reloadableExtensions : reloadableExtensions[dir] # NoAddonId)
    /\ [](\A c \in 1..Len(reloads) : \A i \in 1..Len(reloads[c].requests) :
             /\ reloads[c].requests[i].addonId # NoAddonId
             /\ reloads[c].requests[i].sourceDir \in DOMAIN reloadableExtensions)
    /\ [](\A s \in 1..Len(sessions) :
             \A i \in 1..(Len(sessions[s].installs) - 1) :
                 sessions[s].installs[i].answer.id # NoAddonId)
    /\ [][(InstallStep /\ Answer.error = NoError /\ Answer.id = NoAddonId) =>
             /\ runs'[ThisRun].state = "rejected"
             /\ runs'[ThisRun].error = ErrMissingAddonId
             /\ reloadableExtensions' = reloadableExtensions
             /\ runPc' = "idle"]_vars

\* the install of d2 was answered without an id: run() has failed with the
\* missing-addonId error, d2 is not recorded, and a reload of d1 has sent
\* the id recorded for d1
C19_Witness ==
    /\ Len(runs) = 1 /\ runs[1].error = ErrMissingAddonId
    /\ DOMAIN reloadableExtensions = {"d1"}
    /\ sessions[1].installs[2].answer = [error |-> NoError, id |-> NoAddonId]
    /\ \E c \in 1..Len(reloads) :
          /\ Len(reloads[c].requests) = 1
          /\ reloads[c].requests[1].addonId = AddonIdOf("d1")

\* C20: the cleanup set changes only by a registerCleanup() that adds to it,
\* so callbacks registered before run() are still in it when the process
\* closes, and the close invokes them; a callback that has not been invoked
\* when every launched process has closed is not invoked by any later step
\* in which run() launches no new process, whether registerCleanup() or
\* exit().
C20_LateCallbacksAreNeverInvoked ==
    [][/\ cleanupCallbacks' # cleanupCallbacks =>
            /\ registerLog' # registerLog
            /\ IsPrefix(cleanupCallbacks, cleanupCallbacks')
       /\ \A p \in 1..Len(processes) :
            CloseStep(p) =>
               /\ Range(registerLog) \subseteq
                      Range(cleanupLog'[Len(cleanupLog')].invoked)
               /\ \A cb \in Range(registerLog) : Invocations(cb)' = Invocations(cb) + 1
       /\ \A cb \in Callbacks :
            (/\ Invocations(cb) = 0
             /\ \A p \in 1..Len(processes) : processes[p].closed
             /\ ~LaunchStep)
            => Invocations(cb)' = 0
      ]_vars

\* cb1 was registered first and the close invoked it; cb3 was registered
\* after the close and, an exit() later, has not been invoked
C20_Witness ==
    /\ Len(processes) = 1 /\ processes[1].closed
    /\ registerLog = <<"cb1", "cb3">>
    /\ Len(cleanupLog) = 1
    /\ cleanupLog[1].invoked = <<"cb1">>
    /\ Invocations("cb3") = 0
    /\ Len(exitLog) = 1

====
